---- MODULE Spec2Model ----
(***************************************************************************)
(* A model of the Polar HTTP client of src/src/lib.rs: construction        *)
(* (Polar::new), the four request methods (get, post, patch, delete), the  *)
(* four named helpers built on them, and the environment they talk to (a   *)
(* server that answers with a status code and a body, or a transport that  *)
(* fails).                                                                 *)
(*                                                                         *)
(* Text is modelled as a sequence of tokens.  A URL or a path is the       *)
(* sequence of its lexical pieces: a scheme with its colon ("https:"),     *)
(* the authority marker "//", a host, the separator "/" and path segments. *)
(* "https://api/v1/" is <<"https:", "//", "api", "/", "v1", "/">>.         *)
(* An access token is the sequence of its characters.                      *)
(***************************************************************************)
EXTENDS Integers, Sequences, FiniteSets, TLC

\* Number of distinct non-nil ids the callers use.
MaxUuidIdx == 1

None == "None"

(***************************************************************************)
(* Uuid and its Display: 16 bytes, printed as lowercase hex in the groups  *)
(* 8-4-4-4-12.                                                             *)
(***************************************************************************)
UuidLen == 16

UuidOf(k) == [i \in 1..UuidLen |-> (k * (154 + i)) % 256]

Uuids == {UuidOf(k) : k \in 0..MaxUuidIdx}

HexDigits == <<"0", "1", "2", "3", "4", "5", "6", "7",
               "8", "9", "a", "b", "c", "d", "e", "f">>

HexByte(b) == HexDigits[(b \div 16) + 1] \o HexDigits[(b % 16) + 1]

RECURSIVE HexBytes(_, _, _)
HexBytes(u, from, to) ==
    IF from > to THEN "" ELSE HexByte(u[from]) \o HexBytes(u, from + 1, to)

UuidToString(u) ==
    HexBytes(u, 1, 4) \o "-" \o HexBytes(u, 5, 6) \o "-" \o HexBytes(u, 7, 8)
        \o "-" \o HexBytes(u, 9, 10) \o "-" \o HexBytes(u, 11, 16)

(***************************************************************************)
(* Access tokens: any value with a Display.  A text displays as itself, a  *)
(* number as its decimal digits.                                           *)
(***************************************************************************)
StrToken(chars) == [kind |-> "str", chars |-> chars, n |-> 0]

NumToken(n) == [kind |-> "num", chars |-> <<>>, n |-> n]

Digit(d) == HexDigits[d + 1]

RECURSIVE Decimal(_)
Decimal(n) == IF n < 10 THEN <<Digit(n)>> ELSE Append(Decimal(n \div 10), Digit(n % 10))

to_string(t) == IF t.kind = "str" THEN t.chars ELSE Decimal(t.n)

AccessTokens == {StrToken(<<>>), StrToken(<<"1", "2", "3">>), NumToken(0), NumToken(40)}

(***************************************************************************)
(* URLs.                                                                   *)
(***************************************************************************)
SpecialSchemes == {"http:", "https:"}

Schemes == SpecialSchemes \cup {"mailto:"}

NoHost == "NoHost"

Slashes == {"/", "//"}

Url(scheme, host, path) == [scheme |-> scheme, host |-> host, path |-> path]

ParseOk(url) == [ok |-> TRUE, url |-> url, error |-> None]

ParseErr(msg) == [ok |-> FALSE, url |-> None, error |-> msg]

DropLast2(out) == IF Len(out) >= 3 THEN SubSeq(out, 1, Len(out) - 2) ELSE out

SkipSlash(rest) == IF Len(rest) > 0 /\ rest[1] = "/" THEN Tail(rest) ELSE rest

\* Walks the segments of a path, out being the normalised path so far (it
\* ends in "/"): "." is dropped and ".." removes the segment before it.
RECURSIVE WalkSegments(_, _)
WalkSegments(rest, out) ==
    IF Len(rest) = 0 THEN out
    ELSE IF rest[1] = "/" THEN WalkSegments(Tail(rest), Append(out, "/"))
    ELSE IF rest[1] = ".." THEN WalkSegments(SkipSlash(Tail(rest)), DropLast2(out))
    ELSE IF rest[1] = "." THEN WalkSegments(SkipSlash(Tail(rest)), out)
    ELSE IF Len(rest) >= 2
         THEN WalkSegments(Tail(Tail(rest)), out \o <<rest[1], "/">>)
         ELSE Append(out, rest[1])

\* The path of a hierarchical URL from the tokens after the host.
ParsePath(rest) == WalkSegments(SkipSlash(rest), <<"/">>)

RECURSIVE SkipSlashes(_)
SkipSlashes(rest) ==
    IF Len(rest) > 0 /\ rest[1] \in Slashes THEN SkipSlashes(Tail(rest)) ELSE rest

\* Url::parse of an absolute URL.
ParseUrl(s) ==
    IF Len(s) = 0 \/ s[1] \notin Schemes
    THEN ParseErr("relative URL without a base")
    ELSE IF s[1] \in SpecialSchemes
    THEN LET rest == SkipSlashes(Tail(s))
         IN  IF Len(rest) = 0 THEN ParseErr("empty host")
             ELSE ParseOk(Url(s[1], rest[1], ParsePath(Tail(rest))))
    ELSE IF Len(s) >= 2 /\ s[2] = "//"
    THEN IF Len(s) >= 3 /\ s[3] \notin Slashes
         THEN ParseOk(Url(s[1], s[3], IF Len(s) = 3 THEN <<>> ELSE ParsePath(SubSeq(s, 4, Len(s)))))
         ELSE ParseOk(Url(s[1], "", IF Len(s) = 2 THEN <<>> ELSE ParsePath(SubSeq(s, 3, Len(s)))))
    ELSE ParseOk(Url(s[1], NoHost, Tail(s)))

has_host(url) == url.host # NoHost

\* A conversion that takes whatever parses, host or not.
into_url_unchecked(s) == ParseUrl(s)

\* IntoUrl::into_url: parse, then require a host.
into_url(s) ==
    LET parsed == ParseUrl(s)
    IN  IF parsed.ok /\ ~has_host(parsed.url)
        THEN ParseErr("URL scheme is not allowed")
        ELSE parsed

ends_with_slash(path) == Len(path) > 0 /\ path[Len(path)] = "/"

set_path(url, path) == [url EXCEPT !.path = ParsePath(path)]

\* The path up to and including its last "/".
DirOf(path) ==
    IF ends_with_slash(path) \/ Len(path) = 0 THEN path
    ELSE SubSeq(path, 1, Len(path) - 1)

\* Url::join: resolves the reference ref against a base with a special
\* scheme.
join(base, ref) ==
    IF Len(ref) = 0 THEN ParseOk(base)
    ELSE IF ref[1] \in Schemes THEN ParseUrl(ref)
    ELSE IF ref[1] = "//"
    THEN LET rest == SkipSlashes(ref)
         IN  IF Len(rest) = 0 THEN ParseErr("empty host")
             ELSE ParseOk(Url(base.scheme, rest[1], ParsePath(Tail(rest))))
    ELSE IF ref[1] = "/" THEN ParseOk(Url(base.scheme, base.host, ParsePath(ref)))
    ELSE ParseOk(Url(base.scheme, base.host, WalkSegments(ref, DirOf(base.path))))

(***************************************************************************)
(* PolarError and PolarResult.                                             *)
(***************************************************************************)
NoText == [json |-> FALSE, fields |-> {}, id |-> "-"]

NoValue == [type |-> None, id |-> UuidOf(0)]

NotFound == [kind |-> "NotFound", msg |-> None, text |-> NoText]

Request(msg) == [kind |-> "Request", msg |-> msg, text |-> NoText]

Unauthorized == [kind |-> "Unauthorized", msg |-> None, text |-> NoText]

Unknown(text) == [kind |-> "Unknown", msg |-> None, text |-> text]

Validation(text) == [kind |-> "Validation", msg |-> None, text |-> text]

NoError == [kind |-> None, msg |-> None, text |-> NoText]

Ok(value) == [tag |-> "Ok", value |-> value, error |-> NoError]

Err(error) == [tag |-> "Err", value |-> NoValue, error |-> error]

\* The outcome of a call that has not returned: it is still running, or it
\* panicked.
NoResult == [tag |-> None, value |-> NoValue, error |-> NoError]

ErrorKinds == {"NotFound", "Request", "Unauthorized", "Unknown", "Validation"}

(***************************************************************************)
(* Polar and Polar::new.                                                   *)
(***************************************************************************)
NoUrl == Url(None, None, <<>>)

NoPolar == [base_url |-> NoUrl, access_token |-> <<>>]

is_empty(s) == Len(s) = 0

\* A base URL stored as it was parsed.
NormalisedBase_kept(url) == url

NormalisedBase(url) ==
    IF ~ends_with_slash(url.path)
    THEN set_path(url, Append(url.path, "/"))
    ELSE url

\* A construction that examines the base URL before the access token.
new_url_first(base_url, access_token) ==
    LET parsed == into_url(base_url)
    IN  IF ~parsed.ok
        THEN [result |-> Err(Request("base_url is not a valid URL")), polar |-> NoPolar]
        ELSE IF is_empty(to_string(access_token))
        THEN [result |-> Err(Request("access_token cannot be empty")), polar |-> NoPolar]
        ELSE [result |-> Ok(NoValue),
              polar  |-> [base_url     |-> NormalisedBase(parsed.url),
                          access_token |-> to_string(access_token)]]

new(base_url, access_token) ==
    IF is_empty(to_string(access_token))
    THEN [result |-> Err(Request("access_token cannot be empty")), polar |-> NoPolar]
    ELSE LET parsed == into_url(base_url)
         IN  IF parsed.ok
             THEN [result |-> Ok(NoValue),
                   polar  |-> [base_url     |-> NormalisedBase(parsed.url),
                               access_token |-> to_string(access_token)]]
             ELSE [result |-> Err(Request("base_url is not a valid URL")),
                   polar  |-> NoPolar]

BaseUrls ==
    { <<"https:", "//", "api", "/", "v1", "/">>,
      <<"https:", "//", "api", "/", "v1">>,
      <<"http:", "//", "localhost">>,
      <<"/", "v1", "/">>,
      <<"mailto:", "a">>,
      <<"https:", "//">>,
      <<>> }

(***************************************************************************)
(* JSON texts and the result types decoded from them.  A text is a JSON    *)
(* object with a set of fields and an "id" (or is not JSON at all); a      *)
(* field that is present has a value of the type its name calls for.       *)
(***************************************************************************)
ResultTypes == {"CheckoutSession", "Subscription"}

\* The fields without which deserialization fails: those that are not Option.
RequiredFields(T) ==
    IF T = "CheckoutSession"
    THEN {"created_at", "id", "payment_processor", "status", "client_secret", "url",
          "expires_at", "success_url", "amount", "discount_amount", "net_amount",
          "total_amount", "currency", "product_id", "product_price_id",
          "allow_discount_codes", "require_billing_address", "is_discount_applicable",
          "is_free_product_price", "is_payment_required", "is_payment_setup_required",
          "is_payment_form_required", "is_business_customer",
          "payment_processor_metadata", "billing_address_fields", "metadata",
          "products", "product", "product_price", "attached_custom_fields",
          "customer_metadata", "custom_field_data"}
    ELSE {"created_at", "id", "amount", "currency", "recurring_interval", "status",
          "current_period_start", "cancel_at_period_end", "customer_id", "product_id",
          "metadata", "customer", "product", "prices", "meters", "custom_field_data"}

JsonObject(fields, id) == [json |-> TRUE, fields |-> fields, id |-> id]

\* The bodies a server answers with: the fixtures of the tests and a body
\* that is not JSON.
checkout_session == JsonObject(RequiredFields("CheckoutSession"), UuidToString(UuidOf(1)))

subscription == JsonObject(RequiredFields("Subscription"), UuidToString(UuidOf(1)))

unprocessable_entity == JsonObject({"detail"}, "-")

not_json == [json |-> FALSE, fields |-> {}, id |-> "<html>"]

Texts == {checkout_session, subscription, unprocessable_entity, not_json}

DecodeOk(value) == [ok |-> TRUE, value |-> value]

DecodeErr == [ok |-> FALSE, value |-> NoValue]

\* Uuid::parse_str, the inverse of the Display of a Uuid.
parse_str(s) ==
    IF \E u \in Uuids : UuidToString(u) = s
    THEN DecodeOk([type |-> "Uuid", id |-> CHOOSE u \in Uuids : UuidToString(u) = s])
    ELSE DecodeErr

\* serde_json's deserialization of a text into a T.
from_json(text, T) ==
    IF text.json /\ RequiredFields(T) \subseteq text.fields /\ parse_str(text.id).ok
    THEN DecodeOk([type |-> T, id |-> parse_str(text.id).value.id])
    ELSE DecodeErr

(***************************************************************************)
(* Request parameters and their serialization.  Of the fields of the two   *)
(* parameter types the model keeps one container and one Option each.      *)
(***************************************************************************)
Some(v) == [some |-> TRUE, v |-> v]

NoneOf(v) == [some |-> FALSE, v |-> v]

CheckoutSessionParams(products, amount) ==
    [type |-> "CheckoutSessionParams", products |-> products, amount |-> amount]

SubscriptionParams(product_id, revoke) ==
    [type |-> "SubscriptionParams", product_id |-> product_id, revoke |-> revoke]

CheckoutSessionParamsSet ==
    { CheckoutSessionParams(<<>>, NoneOf(0)),
      CheckoutSessionParams(<<UuidOf(1)>>, Some(500)) }

SubscriptionParamsSet ==
    { SubscriptionParams(NoneOf(UuidOf(0)), NoneOf(FALSE)),
      SubscriptionParams(Some(UuidOf(1)), Some(TRUE)) }

NoParams == [type |-> None]

JsonOption(opt, str) == IF opt.some THEN str ELSE "null"

RECURSIVE Concat(_)
Concat(chars) == IF Len(chars) = 0 THEN "" ELSE Head(chars) \o Concat(Tail(chars))

to_json(params) ==
    IF params.type = "CheckoutSessionParams"
    THEN [products |-> [k \in 1..Len(params.products) |-> UuidToString(params.products[k])],
          amount   |-> JsonOption(params.amount, Concat(Decimal(params.amount.v)))]
    ELSE [product_id |-> JsonOption(params.product_id, UuidToString(params.product_id.v)),
          revoke     |-> JsonOption(params.revoke, IF params.revoke.v THEN "true" ELSE "false")]

NoBody == [json |-> FALSE, obj |-> [empty |-> TRUE]]

\* RequestBuilder::json
json_body(params) == [json |-> TRUE, obj |-> to_json(params)]

\* An Authorization header that holds the token alone.
bearer_auth_raw(access_token) == access_token

\* RequestBuilder::bearer_auth: the value of the Authorization header.
bearer_auth(access_token) == <<"Bearer", " ">> \o access_token

(***************************************************************************)
(* Responses.                                                              *)
(***************************************************************************)
OK == 200

CREATED == 201

UNAUTHORIZED == 401

NOT_FOUND == 404

UNPROCESSABLE_ENTITY == 422

StatusCodes == {OK, CREATED, 204, UNAUTHORIZED, NOT_FOUND, UNPROCESSABLE_ENTITY, 500}

\* A response: its status, the text of its body, and whether the body
\* arrives whole (reading a body that does not fails).
Response(status, text, complete) == [status |-> status, text |-> text, complete |-> complete]

NoResponse == Response(0, NoText, FALSE)

Responses ==
    {Response(s, t, TRUE) : s \in StatusCodes, t \in Texts}
        \cup {Response(s, NoText, FALSE) : s \in StatusCodes}

\* Response::text
text(response) == [ok |-> response.complete, text |-> response.text]

\* Response::json::<T>
json(response, T) == IF response.complete THEN from_json(response.text, T) ELSE DecodeErr

(***************************************************************************)
(* The handling of a response: the match on its status in each of the      *)
(* four request methods.                                                   *)
(***************************************************************************)
Returned(result) == [pc |-> "returned", result |-> result]

Panicked == [pc |-> "panicked", result |-> NoResult]

\* Ok(response.json().await.unwrap())
unwrap_json(response, T) ==
    LET decoded == json(response, T)
    IN  IF decoded.ok THEN Returned(Ok(decoded.value)) ELSE Panicked

\* Err(PolarError::Validation(response.text().await?))
validation_text(response) ==
    LET body == text(response)
    IN  IF body.ok THEN Returned(Err(Validation(body.text)))
        ELSE Returned(Err(Request("error decoding response body")))

\* Err(PolarError::Unknown(response.text().await?))
unknown_text(response) ==
    LET body == text(response)
    IN  IF body.ok THEN Returned(Err(Unknown(body.text)))
        ELSE Returned(Err(Request("error decoding response body")))

delete_match(response, T) ==
    IF response.status = OK THEN unwrap_json(response, T)
    ELSE IF response.status = NOT_FOUND THEN Returned(Err(NotFound))
    ELSE IF response.status = UNPROCESSABLE_ENTITY THEN validation_text(response)
    ELSE IF response.status = UNAUTHORIZED THEN Returned(Err(Unauthorized))
    ELSE unknown_text(response)

get_match(response, T) ==
    IF response.status = OK THEN unwrap_json(response, T)
    ELSE IF response.status = NOT_FOUND THEN Returned(Err(NotFound))
    ELSE IF response.status = UNPROCESSABLE_ENTITY THEN validation_text(response)
    ELSE IF response.status = UNAUTHORIZED THEN Returned(Err(Unauthorized))
    ELSE unknown_text(response)

patch_match(response, T) ==
    IF response.status = OK THEN unwrap_json(response, T)
    ELSE IF response.status = NOT_FOUND THEN Returned(Err(NotFound))
    ELSE IF response.status = UNPROCESSABLE_ENTITY THEN validation_text(response)
    ELSE IF response.status = UNAUTHORIZED THEN Returned(Err(Unauthorized))
    ELSE unknown_text(response)

post_match(response, T) ==
    IF response.status = CREATED THEN unwrap_json(response, T)
    ELSE IF response.status = UNPROCESSABLE_ENTITY THEN validation_text(response)
    ELSE IF response.status = UNAUTHORIZED THEN Returned(Err(Unauthorized))
    ELSE unknown_text(response)

(***************************************************************************)
(* The state: the one construction of a client, the client it built, the   *)
(* invocations made on that client, and the requests sent so far.          *)
(***************************************************************************)
VARIABLES construction, polar, calls, wire

vars == <<construction, polar, calls, wire>>

Invocations == {"i1", "i2"}

\* The invocations that are made one at a time.
Foreground == {"i1"}

NotConstructed ==
    [called |-> FALSE, base_url |-> <<>>, access_token |-> StrToken(<<>>), result |-> NoResult]

\* Who made an invocation: the public function called and, for a helper that
\* takes one, the id it was given.
Caller(op, id) == [op |-> op, id |-> id]

NoId == <<>>

IdleCall ==
    [pc |-> "idle", caller |-> Caller(None, NoId), method |-> None, path |-> <<>>,
     params |-> NoParams, T |-> None, url |-> NoUrl, response |-> NoResponse, result |-> NoResult]

HttpRequest(i, method, url, authorization, body) ==
    [inv |-> i, method |-> method, url |-> url, authorization |-> authorization, body |-> body]

Init ==
    /\ construction = NotConstructed
    /\ polar = NoPolar
    /\ calls = [i \in Invocations |-> IdleCall]
    /\ wire = <<>>

\* Polar::new(base_url, access_token)
New(base_url, access_token) ==
    /\ ~construction.called
    /\ LET made == new(base_url, access_token)
       IN  /\ construction' = [called |-> TRUE, base_url |-> base_url,
                               access_token |-> access_token, result |-> made.result]
           /\ polar' = made.polar
    /\ UNCHANGED <<calls, wire>>

\* The part the four request methods share: the URL is joined, the request
\* is built with the bearer token and sent.  A path that does not join
\* returns the error at once.
\* A client that keeps the values it has received: an invocation whose method
\* and path an earlier invocation was given a value for returns that value
\* and sends nothing.
send_cached(i, caller, method, path, params, body, T) ==
    /\ construction.called /\ construction.result.tag = "Ok"
    /\ calls[i].pc = "idle"
    /\ LET joined == join(polar.base_url, path)
           call == [IdleCall EXCEPT !.caller = caller, !.method = method, !.path = path,
                                    !.params = params, !.T = T]
           hits == {j \in DOMAIN calls : /\ calls[j].pc = "returned"
                                         /\ calls[j].method = method
                                         /\ calls[j].path = path
                                         /\ calls[j].result.tag = "Ok"}
       IN  IF hits # {}
           THEN /\ calls' = [calls EXCEPT ![i] =
                                 [call EXCEPT !.pc = "returned",
                                              !.url = joined.url,
                                              !.result = calls[CHOOSE j \in hits : TRUE].result]]
                /\ wire' = wire
           ELSE IF joined.ok
           THEN /\ calls' = [calls EXCEPT ![i] = [call EXCEPT !.pc = "awaiting",
                                                              !.url = joined.url]]
                /\ wire' = Append(wire, HttpRequest(i, method, joined.url,
                                                    bearer_auth(polar.access_token), body))
           ELSE /\ calls' = [calls EXCEPT ![i] = [call EXCEPT !.pc = "returned",
                                                              !.result = Err(Request(joined.error))]]
                /\ wire' = wire
    /\ UNCHANGED <<construction, polar>>

\* A client that sends to the base URL itself when the path cannot be joined.
send_fallback(i, caller, method, path, params, body, T) ==
    /\ construction.called /\ construction.result.tag = "Ok"
    /\ calls[i].pc = "idle"
    /\ LET joined == join(polar.base_url, path)
           url == IF joined.ok THEN joined.url ELSE polar.base_url
           call == [IdleCall EXCEPT !.caller = caller, !.method = method, !.path = path,
                                    !.params = params, !.T = T]
       IN  /\ calls' = [calls EXCEPT ![i] = [call EXCEPT !.pc = "awaiting", !.url = url]]
           /\ wire' = Append(wire, HttpRequest(i, method, url,
                                               bearer_auth(polar.access_token), body))
    /\ UNCHANGED <<construction, polar>>

send(i, caller, method, path, params, body, T) ==
    /\ construction.called /\ construction.result.tag = "Ok"
    /\ calls[i].pc = "idle"
    /\ LET joined == join(polar.base_url, path)
           call == [IdleCall EXCEPT !.caller = caller, !.method = method, !.path = path,
                                    !.params = params, !.T = T]
       IN  IF joined.ok
           THEN /\ calls' = [calls EXCEPT ![i] = [call EXCEPT !.pc = "awaiting",
                                                              !.url = joined.url]]
                /\ wire' = Append(wire, HttpRequest(i, method, joined.url,
                                                    bearer_auth(polar.access_token), body))
           ELSE /\ calls' = [calls EXCEPT ![i] = [call EXCEPT !.pc = "returned",
                                                  !.result = Err(Request(joined.error))]]
                /\ wire' = wire
    /\ UNCHANGED <<construction, polar>>

\* T: DeserializeOwned
DeserializeOwned == ResultTypes

\* P: Serialize
Serialize == {"CheckoutSessionParams", "SubscriptionParams"}

delete(i, caller, path, T) ==
    /\ T \in DeserializeOwned
    /\ send(i, caller, "DELETE", path, NoParams, NoBody, T)

get(i, caller, path, T) ==
    /\ T \in DeserializeOwned
    /\ send(i, caller, "GET", path, NoParams, NoBody, T)

\* A patch that sends its request without the params.
patch_nobody(i, caller, path, params, T) ==
    /\ params.type \in Serialize
    /\ T \in DeserializeOwned
    /\ send(i, caller, "PATCH", path, params, NoBody, T)

patch(i, caller, path, params, T) ==
    /\ params.type \in Serialize
    /\ T \in DeserializeOwned
    /\ send(i, caller, "PATCH", path, params, json_body(params), T)

post(i, caller, path, params, T) ==
    /\ params.type \in Serialize
    /\ T \in DeserializeOwned
    /\ send(i, caller, "POST", path, params, json_body(params), T)

\* A helper that passes the path with a leading "/".
create_checkout_session_abs(i, params) ==
    /\ params.type = "CheckoutSessionParams"
    /\ post(i, Caller("create_checkout_session", NoId), <<"/", "checkouts">>, params,
            "CheckoutSession")

create_checkout_session(i, params) ==
    /\ params.type = "CheckoutSessionParams"
    /\ post(i, Caller("create_checkout_session", NoId), <<"checkouts">>, params,
            "CheckoutSession")

\* A helper that misspells the collection.
get_checkout_session_singular(i, id) ==
    /\ Len(id) = UuidLen
    /\ get(i, Caller("get_checkout_session", id), <<"checkout", "/", UuidToString(id)>>,
           "CheckoutSession")

get_checkout_session(i, id) ==
    /\ Len(id) = UuidLen
    /\ get(i, Caller("get_checkout_session", id), <<"checkouts", "/", UuidToString(id)>>,
           "CheckoutSession")

\* A helper that sends the update as a POST.
update_subscription_post(i, id, params) ==
    /\ Len(id) = UuidLen
    /\ params.type = "SubscriptionParams"
    /\ post(i, Caller("update_subscription", id),
            <<"subscriptions", "/", UuidToString(id)>>, params, "Subscription")

update_subscription(i, id, params) ==
    /\ Len(id) = UuidLen
    /\ params.type = "SubscriptionParams"
    /\ patch(i, Caller("update_subscription", id),
             <<"subscriptions", "/", UuidToString(id)>>, params, "Subscription")

\* A helper that revokes under a sub-resource of the subscription.
revoke_subscription_nested(i, id) ==
    /\ Len(id) = UuidLen
    /\ delete(i, Caller("revoke_subscription", id),
              <<"subscriptions", "/", UuidToString(id), "/", "revoke">>, "Subscription")

revoke_subscription(i, id) ==
    /\ Len(id) = UuidLen
    /\ delete(i, Caller("revoke_subscription", id),
              <<"subscriptions", "/", UuidToString(id)>>, "Subscription")

\* The paths and parameters a caller of the four request methods passes.
Paths == { <<"/", "orders">>, <<"..", "/", "orders">>, <<"//">> }

ParamsSet ==
    { CheckoutSessionParams(<<UuidOf(1)>>, Some(500)),
      SubscriptionParams(NoneOf(UuidOf(0)), NoneOf(FALSE)) }

\* Who calls when delete, get, patch or post is called directly.
DeleteCaller == Caller("delete", NoId)

GetCaller == Caller("get", NoId)

PatchCaller == Caller("patch", NoId)

PostCaller == Caller("post", NoId)

CallDelete(i) == \E path \in Paths, T \in ResultTypes : delete(i, DeleteCaller, path, T)

CallGet(i) == \E path \in Paths, T \in ResultTypes : get(i, GetCaller, path, T)

CallPatch(i) ==
    \E path \in Paths, params \in ParamsSet, T \in ResultTypes :
        patch(i, PatchCaller, path, params, T)

CallPost(i) ==
    \E path \in Paths, params \in ParamsSet, T \in ResultTypes :
        post(i, PostCaller, path, params, T)

Match(method, response, T) ==
    IF method = "DELETE" THEN delete_match(response, T)
    ELSE IF method = "GET" THEN get_match(response, T)
    ELSE IF method = "PATCH" THEN patch_match(response, T)
    ELSE post_match(response, T)

\* A response that is handed to every invocation that is waiting.
RespondShared(i, response) ==
    /\ calls[i].pc = "awaiting"
    /\ calls' = [j \in DOMAIN calls |->
                    IF calls[j].pc = "awaiting"
                    THEN LET outcome == Match(calls[j].method, response, calls[j].T)
                         IN  [calls[j] EXCEPT !.pc = outcome.pc,
                                              !.response = response,
                                              !.result = outcome.result]
                    ELSE calls[j]]
    /\ UNCHANGED <<construction, polar, wire>>

\* The server answers the request of invocation i, and the invocation
\* handles the response.
Respond(i, response) ==
    /\ calls[i].pc = "awaiting"
    /\ LET outcome == Match(calls[i].method, response, calls[i].T)
       IN  calls' = [calls EXCEPT ![i] = [@ EXCEPT !.pc = outcome.pc,
                                                   !.response = response,
                                                   !.result = outcome.result]]
    /\ UNCHANGED <<construction, polar, wire>>

\* A transport failure answered by sending the request again.
SendErrorRetry(i) ==
    /\ calls[i].pc = "awaiting"
    /\ wire' = Append(wire, wire[CHOOSE k \in 1..Len(wire) : wire[k].inv = i])
    /\ UNCHANGED <<construction, polar, calls>>

\* A transport failure reported as an unknown server error.
SendError_unknown(i) ==
    /\ calls[i].pc = "awaiting"
    /\ calls' = [calls EXCEPT ![i] = [@ EXCEPT !.pc = "returned",
                                      !.result = Err(Unknown(NoText))]]
    /\ UNCHANGED <<construction, polar, wire>>

\* send().await fails: no response is received.
SendError(i) ==
    /\ calls[i].pc = "awaiting"
    /\ calls' = [calls EXCEPT ![i] = [@ EXCEPT !.pc = "returned",
                                      !.result = Err(Request("error sending request"))]]
    /\ UNCHANGED <<construction, polar, wire>>

Next ==
    \/ \E base_url \in BaseUrls, access_token \in AccessTokens : New(base_url, access_token)
    \/ \E i \in Foreground : CallDelete(i)
    \/ \E i \in Foreground : CallGet(i)
    \/ \E i \in Foreground : CallPatch(i)
    \/ \E i \in Foreground : CallPost(i)
    \/ \E i \in Foreground, params \in CheckoutSessionParamsSet : create_checkout_session(i, params)
    \/ \E i \in Foreground, id \in Uuids : get_checkout_session(i, id)
    \/ \E i \in Foreground, id \in Uuids, params \in SubscriptionParamsSet :
            update_subscription(i, id, params)
    \/ \E i \in Foreground, id \in Uuids : revoke_subscription(i, id)
    \/ \E i \in Invocations, response \in Responses : Respond(i, response)
    \/ \E i \in Invocations : SendError(i)

Spec == Init /\ [][Next]_vars

(***************************************************************************)
(* Several invocations on one client.  Every invocation borrows the client *)
(* (&self) and builds a reqwest::Client of its own, so any number of them  *)
(* may be made, one after another or while others are in flight.  The      *)
(* client, the paths and the responses are drawn from smaller sets here.   *)
(***************************************************************************)
SharedBaseUrls == { <<"https:", "//", "api", "/", "v1">> }

SharedTokens == { StrToken(<<"1", "2", "3">>) }

SharedPaths == { <<"/", "orders">>, <<"//">> }

SharedResponses ==
    {Response(s, t, TRUE) : s \in {OK, CREATED, UNPROCESSABLE_ENTITY},
                            t \in {checkout_session, subscription, unprocessable_entity}}
        \cup {Response(OK, NoText, FALSE)}

\* Invocation i may start when invocations are made one after another: no
\* other invocation is in flight.
Ready(i) == \A j \in Invocations \ {i} : calls[j].pc # "awaiting"

\* Invocation i may start when invocations are made in any interleaving.
Anytime(i) == i \in Invocations

\* The steps of invocations made one after another on the shared client.
NextSequential ==
    \/ \E base_url \in SharedBaseUrls, access_token \in SharedTokens :
            New(base_url, access_token)
    \/ \E i \in Invocations, path \in SharedPaths :
            /\ Ready(i)
            /\ delete(i, DeleteCaller, path, "Subscription")
    \/ \E i \in Invocations, path \in SharedPaths :
            /\ Ready(i)
            /\ get(i, GetCaller, path, "CheckoutSession")
    \/ \E i \in Invocations, path \in SharedPaths :
            /\ Ready(i)
            /\ patch(i, PatchCaller, path,
                     SubscriptionParams(Some(UuidOf(1)), Some(TRUE)), "Subscription")
    \/ \E i \in Invocations, path \in SharedPaths :
            /\ Ready(i)
            /\ post(i, PostCaller, path,
                    CheckoutSessionParams(<<UuidOf(1)>>, Some(500)), "CheckoutSession")
    \/ \E i \in Invocations, params \in CheckoutSessionParamsSet :
            /\ Ready(i)
            /\ create_checkout_session(i, params)
    \/ \E i \in Invocations, id \in Uuids :
            /\ Ready(i)
            /\ get_checkout_session(i, id)
    \/ \E i \in Invocations, id \in Uuids, params \in SubscriptionParamsSet :
            /\ Ready(i)
            /\ update_subscription(i, id, params)
    \/ \E i \in Invocations, id \in Uuids :
            /\ Ready(i)
            /\ revoke_subscription(i, id)
    \/ \E i \in Invocations, response \in SharedResponses : Respond(i, response)
    \/ \E i \in Invocations : SendError(i)

\* The steps of invocations made in any interleaving on the shared client.
NextConcurrent ==
    \/ \E base_url \in SharedBaseUrls, access_token \in SharedTokens :
            New(base_url, access_token)
    \/ \E i \in Invocations, path \in SharedPaths :
            /\ Anytime(i)
            /\ delete(i, DeleteCaller, path, "Subscription")
    \/ \E i \in Invocations, path \in SharedPaths :
            /\ Anytime(i)
            /\ get(i, GetCaller, path, "CheckoutSession")
    \/ \E i \in Invocations, path \in SharedPaths :
            /\ Anytime(i)
            /\ patch(i, PatchCaller, path,
                     SubscriptionParams(Some(UuidOf(1)), Some(TRUE)), "Subscription")
    \/ \E i \in Invocations, path \in SharedPaths :
            /\ Anytime(i)
            /\ post(i, PostCaller, path,
                    CheckoutSessionParams(<<UuidOf(1)>>, Some(500)), "CheckoutSession")
    \/ \E i \in Invocations, params \in CheckoutSessionParamsSet :
            /\ Anytime(i)
            /\ create_checkout_session(i, params)
    \/ \E i \in Invocations, id \in Uuids :
            /\ Anytime(i)
            /\ get_checkout_session(i, id)
    \/ \E i \in Invocations, id \in Uuids, params \in SubscriptionParamsSet :
            /\ Anytime(i)
            /\ update_subscription(i, id, params)
    \/ \E i \in Invocations, id \in Uuids :
            /\ Anytime(i)
            /\ revoke_subscription(i, id)
    \/ \E i \in Invocations, response \in SharedResponses : Respond(i, response)
    \/ \E i \in Invocations : SendError(i)

\* Invocations made one after another.
SpecSequential == Init /\ [][NextSequential]_vars

\* Invocations made in any interleaving.
SpecConcurrent == Init /\ [][NextConcurrent]_vars

\* The responses whose body arrives whole.
CompleteResponses == {response \in Responses : response.complete}

\* The request of invocation i is answered: a complete response arrives, or
\* the transport fails.
Answer(i) ==
    \/ \E response \in CompleteResponses : Respond(i, response)
    \/ SendError(i)

\* The steps of the client when every response that arrives is complete.
NextAnswered ==
    \/ \E base_url \in BaseUrls, access_token \in AccessTokens : New(base_url, access_token)
    \/ \E i \in Foreground : CallDelete(i)
    \/ \E i \in Foreground : CallGet(i)
    \/ \E i \in Foreground : CallPatch(i)
    \/ \E i \in Foreground : CallPost(i)
    \/ \E i \in Foreground, params \in CheckoutSessionParamsSet : create_checkout_session(i, params)
    \/ \E i \in Foreground, id \in Uuids : get_checkout_session(i, id)
    \/ \E i \in Foreground, id \in Uuids, params \in SubscriptionParamsSet :
            update_subscription(i, id, params)
    \/ \E i \in Foreground, id \in Uuids : revoke_subscription(i, id)
    \/ \E i \in Invocations, response \in CompleteResponses : Respond(i, response)
    \/ \E i \in Invocations : SendError(i)

\* Every request that was sent is eventually answered.
SpecFair ==
    /\ Init
    /\ [][NextAnswered]_vars
    /\ \A i \in Invocations : WF_vars(Answer(i))

(***************************************************************************)
(* Vocabulary of the properties.                                           *)
(***************************************************************************)
\* The requests invocation i has sent, in the order sent.
RequestsOf(i) == SelectSeq(wire, LAMBDA request : request.inv = i)

\* Invocation i has received a response.
Answered(i) == calls[i].response # NoResponse

\* Invocation i has received a response whose body arrived whole.
AnsweredWhole(i) == Answered(i) /\ calls[i].response.complete

\* The text of an access token, written out per kind of token.
TokenText(t) ==
    IF t.kind = "str" THEN t.chars
    ELSE IF t.n = 0 THEN <<"0">>
    ELSE <<"4", "0">>

\* A base URL text that has a scheme, the authority marker and a host.
AbsoluteWithHost(s) ==
    Len(s) >= 3 /\ s[1] \in Schemes /\ s[2] = "//" /\ s[3] \notin Slashes

\* The path of such a base URL text, made to end in "/".
SlashedPath(s) ==
    LET rest == SubSeq(s, 4, Len(s))
    IN  IF Len(rest) > 0 /\ rest[Len(rest)] = "/" THEN rest ELSE Append(rest, "/")

\* The URL a request is meant to go to: the base given to Polar::new, its
\* path kept, followed by the segments of suffix.
UnderBase(suffix) ==
    Url(construction.base_url[1], construction.base_url[3],
        SlashedPath(construction.base_url) \o suffix)

(***************************************************************************)
(* C1.  An invocation of get, post, patch, delete or of a helper ends only *)
(* by returning Ok(value) or Err(PolarError), whatever the server answers  *)
(* and whatever the transport does: it never panics.                       *)
(***************************************************************************)
C1_OnlyTypedResults ==
    \A i \in Invocations :
        /\ calls[i].pc \in {"idle", "awaiting", "returned"}
        /\ calls[i].pc = "returned" =>
               \/ calls[i].result.tag = "Ok"
               \/ calls[i].result.tag = "Err" /\ calls[i].result.error.kind \in ErrorKinds

(***************************************************************************)
(* C2.  For get, patch and delete the status of the response decides the   *)
(* result: 200 gives Ok with the decoded body, 404 Err(NotFound), 422      *)
(* Err(Validation(body text)), 401 Err(Unauthorized) and every other       *)
(* status Err(Unknown(body text)); the three verbs map alike.  (Stated of  *)
(* responses whose body text arrived.)                                     *)
(***************************************************************************)
C2_GetPatchDeleteMapping ==
    \A i \in Invocations :
        LET c == calls[i]
            r == c.response
        IN  (c.method \in {"GET", "PATCH", "DELETE"} /\ AnsweredWhole(i)) =>
                /\ c.pc = "returned"
                /\ r.status = 200 =>
                       /\ c.result.tag = "Ok"
                       /\ c.result.value.type = c.T
                       /\ UuidToString(c.result.value.id) = r.text.id
                /\ r.status = 404 => c.result = Err(NotFound)
                /\ r.status = 422 => c.result = Err(Validation(r.text))
                /\ r.status = 401 => c.result = Err(Unauthorized)
                /\ r.status \notin {200, 404, 422, 401} => c.result = Err(Unknown(r.text))

(***************************************************************************)
(* C3.  For post the status of the response decides the result: 201 gives  *)
(* Ok with the decoded body, 422 Err(Validation(body text)), 401           *)
(* Err(Unauthorized) and every other status, 404 and 200 among them,       *)
(* Err(Unknown(body text)); post never returns Err(NotFound).  (Stated of  *)
(* responses whose body text arrived.)                                     *)
(***************************************************************************)
C3_PostMapping ==
    \A i \in Invocations :
        LET c == calls[i]
            r == c.response
        IN  /\ c.method = "POST" => c.result # Err(NotFound)
            /\ (c.method = "POST" /\ AnsweredWhole(i)) =>
                /\ c.pc = "returned"
                /\ r.status = 201 =>
                       /\ c.result.tag = "Ok"
                       /\ c.result.value.type = c.T
                       /\ UuidToString(c.result.value.id) = r.text.id
                /\ r.status = 422 => c.result = Err(Validation(r.text))
                /\ r.status = 401 => c.result = Err(Unauthorized)
                /\ r.status \notin {201, 422, 401} => c.result = Err(Unknown(r.text))

(***************************************************************************)
(* C4.  An invocation sends at most one HTTP request, whatever its outcome *)
(* is: an error status, a transport failure or a body that does not decode *)
(* is never followed by a second request.                                  *)
(***************************************************************************)
C4_AtMostOneRequest ==
    \A i \in Invocations :
        /\ Len(RequestsOf(i)) <= 1
        /\ calls[i].pc = "idle" => Len(RequestsOf(i)) = 0
        /\ calls[i].pc = "awaiting" => Len(RequestsOf(i)) = 1

C4_Witness ==
    \E i \in Invocations :
        /\ calls[i].pc = "returned"
        /\ calls[i].result = Err(Request("error sending request"))
        /\ Len(RequestsOf(i)) = 1

(***************************************************************************)
(* C5.  Every request sent carries as bearer token exactly the access      *)
(* token given to Polar::new, and the token of a client that Polar::new    *)
(* returned is not empty.                                                  *)
(***************************************************************************)
C5_Authenticated ==
    /\ construction.result.tag = "Ok" =>
           /\ polar.access_token = TokenText(construction.access_token)
           /\ polar.access_token # <<>>
    /\ \A k \in 1..Len(wire) :
           /\ wire[k].authorization =
                  <<"Bearer", " ">> \o TokenText(construction.access_token)
           /\ Len(wire[k].authorization) > 2

C5_Witness ==
    \E k \in 1..Len(wire) :
        /\ wire[k].method = "DELETE"
        /\ wire[k].authorization = <<"Bearer", " ", "4", "0">>

(***************************************************************************)
(* C6.  Polar::new returns Err(PolarError::Request) and builds no client   *)
(* whenever the text of the access token is empty, for every base URL: the *)
(* token is checked before the base URL is looked at.                      *)
(***************************************************************************)
C6_EmptyTokenRejected ==
    (construction.called /\ TokenText(construction.access_token) = <<>>) =>
        /\ construction.result = Err(Request("access_token cannot be empty"))
        /\ polar = NoPolar

C6_Witness ==
    /\ construction.called
    /\ construction.access_token = StrToken(<<>>)
    /\ construction.base_url = <<"/", "v1", "/">>
    /\ construction.result.tag = "Err"

(***************************************************************************)
(* C7.  Polar::new returns Err(PolarError::Request) and builds no client   *)
(* whenever the base URL is not an absolute URL with a host (the relative  *)
(* reference "/v1/" for one), for every access token that is not empty.    *)
(***************************************************************************)
C7_InvalidBaseUrlRejected ==
    ( /\ construction.called
      /\ TokenText(construction.access_token) # <<>>
      /\ ~AbsoluteWithHost(construction.base_url) ) =>
        /\ construction.result = Err(Request("base_url is not a valid URL"))
        /\ polar = NoPolar

C7_Witness ==
    /\ construction.called
    /\ construction.access_token = StrToken(<<"1", "2", "3">>)
    /\ construction.base_url = <<"/", "v1", "/">>
    /\ construction.result.tag = "Err"

(***************************************************************************)
(* C8.  Polar::new returns Ok exactly when the access token is not empty   *)
(* and the base URL is an absolute URL with a host, and the client it      *)
(* returns holds that token and that URL, its path made to end in "/".     *)
(***************************************************************************)
C8_ValidArgumentsAccepted ==
    construction.called =>
        /\ construction.result.tag \in {"Ok", "Err"}
        /\ construction.result.tag = "Ok" <=>
               /\ TokenText(construction.access_token) # <<>>
               /\ AbsoluteWithHost(construction.base_url)
        /\ construction.result.tag = "Err" =>
               /\ construction.result.error.kind = "Request"
               /\ polar = NoPolar
        /\ construction.result.tag = "Ok" =>
               /\ polar.access_token = TokenText(construction.access_token)
               /\ polar.base_url = UnderBase(<<>>)
               /\ polar.base_url.path[Len(polar.base_url.path)] = "/"

C8_Witness ==
    /\ construction.called
    /\ construction.base_url = <<"https:", "//", "api", "/", "v1">>
    /\ construction.result.tag = "Ok"
    /\ polar.base_url.path = <<"/", "v1", "/">>

(***************************************************************************)
(* C9.  create_checkout_session sends one POST request to the base URL     *)
(* with the segment "checkouts" appended under the base path, the params   *)
(* given being its body; it returns Ok when the server answers 201 with a  *)
(* checkout session, and Err when the server answers 422.                  *)
(***************************************************************************)
C9_CreateCheckoutSession ==
    \A i \in Invocations :
        LET c == calls[i]
            sent == RequestsOf(i)
        IN  c.caller.op = "create_checkout_session" =>
                /\ Len(sent) = 1
                /\ sent[1].method = "POST"
                /\ sent[1].url = UnderBase(<<"checkouts">>)
                /\ sent[1].body.json
                /\ Len(sent[1].body.obj.products) = Len(c.params.products)
                /\ \A k \in 1..Len(c.params.products) :
                       parse_str(sent[1].body.obj.products[k]).value.id = c.params.products[k]
                /\ sent[1].body.obj.amount = IF c.params.amount.some THEN "500" ELSE "null"
                /\ (AnsweredWhole(i) /\ c.response.status = 201
                        /\ c.response.text = checkout_session) =>
                       /\ c.pc = "returned"
                       /\ c.result.tag = "Ok"
                       /\ c.result.value.type = "CheckoutSession"
                /\ (Answered(i) /\ c.response.status = 422) =>
                       /\ c.pc = "returned"
                       /\ c.result.tag = "Err"

C9_Witness ==
    \E i \in Invocations :
        /\ calls[i].caller.op = "create_checkout_session"
        /\ construction.base_url = <<"https:", "//", "api", "/", "v1", "/">>
        /\ calls[i].params.amount.some
        /\ calls[i].url.path = <<"/", "v1", "/", "checkouts">>
        /\ calls[i].response.status = 201
        /\ calls[i].result.tag = "Ok"

(***************************************************************************)
(* C10.  get_checkout_session(id) sends one GET request to the base URL    *)
(* followed by "checkouts/<id>", the id being the one passed in; it        *)
(* returns Ok when the server answers 200 with a checkout session, and Err *)
(* when the server answers 404.                                            *)
(***************************************************************************)
C10_GetCheckoutSession ==
    \A i \in Invocations :
        LET c == calls[i]
            sent == RequestsOf(i)
        IN  c.caller.op = "get_checkout_session" =>
                /\ Len(sent) = 1
                /\ sent[1].method = "GET"
                /\ Len(sent[1].url.path) >= 3
                /\ LET n == Len(sent[1].url.path)
                   IN  /\ sent[1].url =
                              UnderBase(<<"checkouts", "/", sent[1].url.path[n]>>)
                       /\ parse_str(sent[1].url.path[n]).ok
                       /\ parse_str(sent[1].url.path[n]).value.id = c.caller.id
                /\ (AnsweredWhole(i) /\ c.response.status = 200
                        /\ c.response.text = checkout_session) =>
                       /\ c.pc = "returned"
                       /\ c.result.tag = "Ok"
                       /\ c.result.value.type = "CheckoutSession"
                /\ (Answered(i) /\ c.response.status = 404) =>
                       /\ c.pc = "returned"
                       /\ c.result.tag = "Err"

C10_Witness ==
    \E i \in Invocations :
        /\ calls[i].caller = Caller("get_checkout_session", UuidOf(1))
        /\ calls[i].url.path =
               <<"/", "v1", "/", "checkouts", "/", "9b9c9d9e-9fa0-a1a2-a3a4-a5a6a7a8a9aa">>
        /\ calls[i].response.status = 404
        /\ calls[i].result = Err(NotFound)

(***************************************************************************)
(* C11.  update_subscription(id, params) sends one PATCH request to the    *)
(* base URL followed by "subscriptions/<id>", the params given being its   *)
(* body; it returns Ok when the server answers 200 with a subscription,    *)
(* and Err when the server answers 422.                                    *)
(***************************************************************************)
C11_UpdateSubscription ==
    \A i \in Invocations :
        LET c == calls[i]
            sent == RequestsOf(i)
        IN  c.caller.op = "update_subscription" =>
                /\ Len(sent) = 1
                /\ sent[1].method = "PATCH"
                /\ Len(sent[1].url.path) >= 3
                /\ LET n == Len(sent[1].url.path)
                   IN  /\ sent[1].url =
                              UnderBase(<<"subscriptions", "/", sent[1].url.path[n]>>)
                       /\ parse_str(sent[1].url.path[n]).ok
                       /\ parse_str(sent[1].url.path[n]).value.id = c.caller.id
                /\ sent[1].body.json
                /\ (sent[1].body.obj.product_id = "null") <=> ~c.params.product_id.some
                /\ c.params.product_id.some =>
                       parse_str(sent[1].body.obj.product_id).value.id = c.params.product_id.v
                /\ sent[1].body.obj.revoke =
                       IF ~c.params.revoke.some THEN "null"
                       ELSE IF c.params.revoke.v THEN "true" ELSE "false"
                /\ (AnsweredWhole(i) /\ c.response.status = 200
                        /\ c.response.text = subscription) =>
                       /\ c.pc = "returned"
                       /\ c.result.tag = "Ok"
                       /\ c.result.value.type = "Subscription"
                /\ (Answered(i) /\ c.response.status = 422) =>
                       /\ c.pc = "returned"
                       /\ c.result.tag = "Err"

C11_Witness ==
    \E i \in Invocations :
        /\ calls[i].caller = Caller("update_subscription", UuidOf(1))
        /\ calls[i].params.revoke = Some(TRUE)
        /\ calls[i].url.path =
               <<"/", "v1", "/", "subscriptions", "/", "9b9c9d9e-9fa0-a1a2-a3a4-a5a6a7a8a9aa">>
        /\ calls[i].response.status = 200
        /\ calls[i].result.tag = "Ok"

(***************************************************************************)
(* C12.  revoke_subscription(id) sends one DELETE request, with no body,   *)
(* to the base URL followed by "subscriptions/<id>"; an invocation of      *)
(* update_subscription with the same id on the same client sends to the    *)
(* same URL and differs in the method; revoke_subscription returns Ok when *)
(* the server answers 200 with a subscription, and Err when the server     *)
(* answers 422.                                                            *)
(***************************************************************************)
C12_RevokeSubscription ==
    \A i \in Invocations :
        LET c == calls[i]
            sent == RequestsOf(i)
        IN  c.caller.op = "revoke_subscription" =>
                /\ Len(sent) = 1
                /\ sent[1].method = "DELETE"
                /\ sent[1].body = NoBody
                /\ Len(sent[1].url.path) >= 3
                /\ LET n == Len(sent[1].url.path)
                   IN  /\ sent[1].url =
                              UnderBase(<<"subscriptions", "/", sent[1].url.path[n]>>)
                       /\ parse_str(sent[1].url.path[n]).ok
                       /\ parse_str(sent[1].url.path[n]).value.id = c.caller.id
                /\ \A j \in Invocations :
                       (/\ calls[j].caller.op = "update_subscription"
                        /\ calls[j].caller.id = c.caller.id) =>
                           /\ Len(RequestsOf(j)) = 1
                           /\ RequestsOf(j)[1].url = sent[1].url
                           /\ RequestsOf(j)[1].authorization = sent[1].authorization
                           /\ RequestsOf(j)[1].method # sent[1].method
                /\ (AnsweredWhole(i) /\ c.response.status = 200
                        /\ c.response.text = subscription) =>
                       /\ c.pc = "returned"
                       /\ c.result.tag = "Ok"
                       /\ c.result.value.type = "Subscription"
                /\ (Answered(i) /\ c.response.status = 422) =>
                       /\ c.pc = "returned"
                       /\ c.result.tag = "Err"

C12_Witness ==
    /\ calls["i1"].caller = Caller("update_subscription", UuidOf(1))
    /\ calls["i2"].caller = Caller("revoke_subscription", UuidOf(1))
    /\ calls["i2"].url.path =
           <<"/", "v1", "/", "subscriptions", "/", "9b9c9d9e-9fa0-a1a2-a3a4-a5a6a7a8a9aa">>
    /\ calls["i2"].url = calls["i1"].url
    /\ calls["i2"].response.status = 200
    /\ calls["i2"].result.tag = "Ok"

(***************************************************************************)
(* C13.  Nothing is cached.  In invocations made one after another on one  *)
(* client, every invocation whose URL builds sends its own request, also   *)
(* when an earlier invocation asked for the same URL; and two invocations  *)
(* of the same method, path, params and result type that were given the    *)
(* same response have the same outcome, whatever was invoked before them   *)
(* and whatever it was answered.                                           *)
(***************************************************************************)
C13_NoCaching ==
    /\ \A i \in Invocations :
           (calls[i].pc # "idle" /\ join(polar.base_url, calls[i].path).ok) =>
               /\ Len(RequestsOf(i)) = 1
               /\ RequestsOf(i)[1].method = calls[i].method
               /\ RequestsOf(i)[1].url = join(polar.base_url, calls[i].path).url
    /\ Len(wire) = Cardinality({i \in Invocations : RequestsOf(i) # <<>>})
    /\ \A i, j \in Invocations :
           (/\ Answered(i) /\ Answered(j)
            /\ calls[i].method = calls[j].method
            /\ calls[i].path = calls[j].path
            /\ calls[i].params = calls[j].params
            /\ calls[i].T = calls[j].T
            /\ calls[i].response = calls[j].response) =>
               /\ calls[i].pc = calls[j].pc
               /\ calls[i].result = calls[j].result

\* The same GET made twice, the second after the first had returned a value:
\* two requests were sent, and the second invocation reports its own answer.
C13_Witness ==
    /\ Len(wire) = 2
    /\ wire[1].inv = "i1" /\ wire[2].inv = "i2"
    /\ wire[1].method = "GET" /\ wire[2].method = "GET"
    /\ wire[1].url = wire[2].url
    /\ calls["i1"].response = Response(OK, checkout_session, TRUE)
    /\ calls["i1"].result.tag = "Ok"
    /\ calls["i2"].response.status = UNPROCESSABLE_ENTITY
    /\ calls["i2"].result.tag = "Err"

(***************************************************************************)
(* C14.  An invocation of get, post, patch or delete whose path cannot be  *)
(* joined to the base URL has returned Err(PolarError::Request(message)),  *)
(* the message being that of the failed join, and has sent no request and  *)
(* received no response; every request that was sent went to a URL the     *)
(* join had built.                                                         *)
(***************************************************************************)
C14_UnjoinablePath ==
    /\ \A i \in Invocations :
           (calls[i].pc # "idle" /\ ~join(polar.base_url, calls[i].path).ok) =>
               /\ calls[i].caller.op \in {"get", "post", "patch", "delete"}
               /\ calls[i].pc = "returned"
               /\ calls[i].result.tag = "Err"
               /\ calls[i].result.error.kind = "Request"
               /\ calls[i].result.error.msg = join(polar.base_url, calls[i].path).error
               /\ RequestsOf(i) = <<>>
               /\ ~Answered(i)
    /\ \A k \in 1..Len(wire) :
           LET joined == join(polar.base_url, calls[wire[k].inv].path)
           IN  joined.ok /\ wire[k].url = joined.url

C14_Witness ==
    \E i \in Invocations :
        /\ calls[i].caller.op = "patch"
        /\ calls[i].path = <<"//">>
        /\ calls[i].result = Err(Request("empty host"))
        /\ wire = <<>>

(***************************************************************************)
(* C15.  An invocation that sent its request and ended without receiving a *)
(* response, the transport having failed, has returned                     *)
(* Err(PolarError::Request(message)): not Ok, and not NotFound,            *)
(* Unauthorized, Validation or Unknown.                                    *)
(***************************************************************************)
C15_TransportFailure ==
    \A i \in Invocations :
        (/\ RequestsOf(i) # <<>>
         /\ calls[i].pc # "awaiting"
         /\ ~Answered(i)) =>
            /\ calls[i].pc = "returned"
            /\ calls[i].result.tag = "Err"
            /\ calls[i].result.error.kind = "Request"
            /\ calls[i].result.error.msg # None
            /\ calls[i].result.value = NoValue

C15_Witness ==
    \E i \in Invocations :
        /\ calls[i].caller.op = "get"
        /\ Len(RequestsOf(i)) = 1
        /\ ~Answered(i)
        /\ calls[i].result = Err(Request("error sending request"))

(***************************************************************************)
(* C16.  When every request that was sent is eventually answered by a      *)
(* complete response or by a transport failure, every invocation that is   *)
(* waiting for its answer eventually returns.                              *)
(***************************************************************************)
C16_EventuallyReturns ==
    \A i \in Invocations : (calls[i].pc = "awaiting") ~> (calls[i].pc = "returned")

(***************************************************************************)
(* C17.  Invocations running concurrently on one shared client do not      *)
(* interfere.  In every interleaving of their steps, each invocation whose *)
(* URL built has sent exactly one request, made of its own method, URL and *)
(* params and of the client's token; an invocation still waiting has no    *)
(* response and no result; the outcome of an answered invocation is the    *)
(* one its own method and result type give for its own response; and a     *)
(* step of one invocation changes no other invocation, not the client, and *)
(* no request already sent.                                                *)
(***************************************************************************)
C17_OwnRequestOwnResult ==
    /\ [](\A i \in Invocations :
            LET c == calls[i]
                sent == RequestsOf(i)
            IN  /\ Len(sent) =
                       (IF c.pc # "idle" /\ join(polar.base_url, c.path).ok THEN 1 ELSE 0)
                /\ Len(wire) = Cardinality({j \in Invocations : RequestsOf(j) # <<>>})
                /\ sent # <<>> =>
                       /\ sent[1].method = c.method
                       /\ sent[1].url = join(polar.base_url, c.path).url
                       /\ sent[1].authorization = <<"Bearer", " ">> \o polar.access_token
                       /\ sent[1].body = (IF c.method \in {"POST", "PATCH"}
                                          THEN [json |-> TRUE, obj |-> to_json(c.params)]
                                          ELSE NoBody)
                /\ c.pc = "awaiting" => (~Answered(i) /\ c.result = NoResult)
                /\ Answered(i) =>
                       /\ sent # <<>>
                       /\ c.pc = Match(c.method, c.response, c.T).pc
                       /\ c.result = Match(c.method, c.response, c.T).result)
    /\ [][\A i \in Invocations :
            calls'[i] # calls[i] =>
                /\ \A j \in Invocations \ {i} : calls'[j] = calls[j]
                /\ polar' = polar
                /\ Len(wire') >= Len(wire)
                /\ SubSeq(wire', 1, Len(wire)) = wire
                /\ \A k \in (Len(wire) + 1)..Len(wire') : wire'[k].inv = i]_vars

\* Two invocations in flight at once, answered in the other order than sent:
\* the second has its own answer while the first still waits.
C17_Witness ==
    /\ Len(wire) = 2
    /\ wire[1].inv = "i1" /\ wire[2].inv = "i2"
    /\ wire[1].method = "PATCH" /\ wire[2].method = "GET"
    /\ calls["i1"].pc = "awaiting"
    /\ calls["i2"].pc = "returned"
    /\ calls["i2"].response = Response(OK, checkout_session, TRUE)
    /\ calls["i2"].result.tag = "Ok"

(***************************************************************************)
(* C18.  A request sent by post or patch carries the params it was given,  *)
(* serialized as JSON, as its body; a request sent by get or delete has no *)
(* body.  A request consists of the method, the URL joined from the base   *)
(* URL and the path, the Authorization header made from the access token,  *)
(* and that body, and of nothing else.                                     *)
(***************************************************************************)
C18_RequestConstruction ==
    \A k \in 1..Len(wire) :
        LET request == wire[k]
            c == calls[request.inv]
        IN  /\ DOMAIN request = {"inv", "method", "url", "authorization", "body"}
            /\ request.method = c.method
            /\ request.method \in {"GET", "POST", "PATCH", "DELETE"}
            /\ request.url = join(polar.base_url, c.path).url
            /\ request.authorization =
                   <<"Bearer", " ">> \o TokenText(construction.access_token)
            /\ request.method \in {"GET", "DELETE"} => request.body = NoBody
            /\ request.method \in {"POST", "PATCH"} =>
                   /\ request.body.json
                   /\ c.params.type \in {"CheckoutSessionParams", "SubscriptionParams"}
                   /\ c.params.type = "CheckoutSessionParams" =>
                          /\ DOMAIN request.body.obj = {"products", "amount"}
                          /\ Len(request.body.obj.products) = Len(c.params.products)
                          /\ \A n \in 1..Len(c.params.products) :
                                 parse_str(request.body.obj.products[n]).value.id =
                                     c.params.products[n]
                          /\ request.body.obj.amount =
                                 IF c.params.amount.some THEN "500" ELSE "null"
                   /\ c.params.type = "SubscriptionParams" =>
                          /\ DOMAIN request.body.obj = {"product_id", "revoke"}
                          /\ (request.body.obj.product_id = "null")
                                 <=> ~c.params.product_id.some
                          /\ c.params.product_id.some =>
                                 parse_str(request.body.obj.product_id).value.id =
                                     c.params.product_id.v
                          /\ request.body.obj.revoke =
                                 IF ~c.params.revoke.some THEN "null"
                                 ELSE IF c.params.revoke.v THEN "true" ELSE "false"

C18_Witness ==
    /\ Len(wire) = 1
    /\ wire[1].method = "PATCH"
    /\ calls[wire[1].inv].caller.op = "patch"
    /\ calls[wire[1].inv].params = CheckoutSessionParams(<<UuidOf(1)>>, Some(500))
    /\ wire[1].body.obj.amount = "500"
    /\ wire[1].body.obj.products = <<"9b9c9d9e-9fa0-a1a2-a3a4-a5a6a7a8a9aa">>

====
